---- MODULE Spec2Model ----
(***************************************************************************)
(* Model of convert_mp3_to_wav.py: the batch converter that lists an input *)
(* folder, keeps the entries ending in ".mp3" (case-insensitively) and     *)
(* converts each one to <root>.wav in the output folder, catching per-file *)
(* failures.  File names and messages are sequences of one-character       *)
(* strings so that lower(), endswith(), splitext() and the substring test  *)
(* of main() are computed, not assumed.  A path is a sequence of           *)
(* components.                                                             *)
(***************************************************************************)
EXTENDS Integers, Sequences, FiniteSets, TLC

\* ------------------------------------------------------------------ bounds
\* Largest number of entries the input folder holds at the start of a run.
MaxFiles == 3

\* ------------------------------------------------------- program constants
TargetRate == 16000
TargetChannels == 1

\* ----------------------------------------------------------------- strings
UpperToLower ==
    ("A" :> "a") @@ ("B" :> "b") @@ ("C" :> "c") @@ ("D" :> "d") @@ ("E" :> "e") @@
    ("F" :> "f") @@ ("G" :> "g") @@ ("H" :> "h") @@ ("I" :> "i") @@ ("J" :> "j") @@
    ("K" :> "k") @@ ("L" :> "l") @@ ("M" :> "m") @@ ("N" :> "n") @@ ("O" :> "o") @@
    ("P" :> "p") @@ ("Q" :> "q") @@ ("R" :> "r") @@ ("S" :> "s") @@ ("T" :> "t") @@
    ("U" :> "u") @@ ("V" :> "v") @@ ("W" :> "w") @@ ("X" :> "x") @@ ("Y" :> "y") @@
    ("Z" :> "z")

\* str.lower()
Lower(s) ==
    [i \in 1..Len(s) |-> IF s[i] \in DOMAIN UpperToLower THEN UpperToLower[s[i]] ELSE s[i]]

\* str.endswith(suffix)
EndsWith(s, suffix) ==
    /\ Len(s) >= Len(suffix)
    /\ SubSeq(s, Len(s) - Len(suffix) + 1, Len(s)) = suffix

\* sub in s
Contains(sub, s) ==
    \E i \in 1..(Len(s) - Len(sub) + 1) : SubSeq(s, i, i + Len(sub) - 1) = sub

\* str.rfind(c): 0-based index of the last occurrence, -1 when absent
RFind(p, c) ==
    IF \E i \in 1..Len(p) : p[i] = c
    THEN (CHOOSE i \in 1..Len(p) : p[i] = c /\ \A j \in (i+1)..Len(p) : p[j] # c) - 1
    ELSE -1

ExtMp3 == <<".", "m", "p", "3">>
ExtWav == <<".", "w", "a", "v">>
Ffmpeg == <<"f", "f", "m", "p", "e", "g">>

\* A variant of splitext that lacks the leading-dots rule.
splitext_noLeadingDots(p) ==
    LET dotIndex == RFind(p, ".")
    IN  IF dotIndex > RFind(p, "/")
        THEN <<SubSeq(p, 1, dotIndex), SubSeq(p, dotIndex + 1, Len(p))>>
        ELSE <<p, <<>>>>

\* os.path.splitext (genericpath._splitext with sep "/", extsep "."):
\* the extension starts at the last dot of the last component, unless only
\* dots precede it.
splitext(p) ==
    LET sepIndex == RFind(p, "/")
        dotIndex == RFind(p, ".")
    IN  IF /\ dotIndex > sepIndex
           /\ \E filenameIndex \in (sepIndex + 1)..(dotIndex - 1) : p[filenameIndex + 1] # "."
        THEN <<SubSeq(p, 1, dotIndex), SubSeq(p, dotIndex + 1, Len(p))>>
        ELSE <<p, <<>>>>

\* A variant of the filter that looks for ".mp3" anywhere in the name.
IsMp3_anywhere(f) == Contains(ExtMp3, Lower(f))

\* the filter of the list comprehension: f.lower().endswith(".mp3")
IsMp3(f) == EndsWith(Lower(f), ExtMp3)

\* A variant that keeps the source name as the output name.
OutputFilename_keepName(mp3_file) == mp3_file

\* output_filename = os.path.splitext(mp3_file)[0] + ".wav"
OutputFilename(mp3_file) == splitext(mp3_file)[1] \o ExtWav

\* os.path.join(folder, name) for a listing entry (never absolute)
Join(folder, name) == Append(folder, name)

\* ---------------------------------------------------------------- universe
NameAmp3 == <<"a", ".", "m", "p", "3">>
NameAMP3 == <<"a", ".", "M", "P", "3">>
NameDotMp3 == <<".", "m", "p", "3">>
NameDotMp3Mp3 == <<".", "m", "p", "3", ".", "m", "p", "3">>
NameTxt == <<"a", ".", "t", "x", "t">>
NameWav == <<"a", ".", "w", "a", "v">>
NameMp3x == <<"a", ".", "M", "p", "3", "x">>

Names ==
    {NameAmp3, NameAMP3, NameDotMp3, NameDotMp3Mp3, NameTxt, NameWav, NameMp3x}

DirIn == <<"i", "n">>
DirOut == <<"o", "u", "t">>
DirX == <<"x">>

InputChoices == {<<DirIn>>}
OutputChoices == {<<DirIn>>, <<DirX, DirOut>>}
AllDirs == {<<DirIn>>, <<DirX>>, <<DirX, DirOut>>}

Prefixes(p) == {SubSeq(p, 1, n) : n \in 1..Len(p)}

Original == [kind |-> "original", src |-> <<>>, rate |-> 0, channels |-> 0]

\* the file AudioSegment.export writes on success
Wav(mp3_file) ==
    [kind |-> "wav", src |-> mp3_file, rate |-> TargetRate, channels |-> TargetChannels]

\* what an interrupted export leaves behind
Partial(mp3_file) ==
    [kind |-> "partial", src |-> mp3_file, rate |-> TargetRate, channels |-> TargetChannels]

\* ------------------------------------------------- the toolchain probe
MsgNoTestFile ==
    <<"[", "E", "r", "r", "n", "o", " ", "2", "]", " ", "N", "o", " ", "s", "u", "c", "h", " ", "f", "i", "l", "e", " ", "o", "r", " ", "d", "i", "r", "e", "c", "t", "o", "r", "y", ":", " ", "'", "t", "e", "s", "t", "'">>
MsgNoFfprobe ==
    <<"[", "E", "r", "r", "n", "o", " ", "2", "]", " ", "N", "o", " ", "s", "u", "c", "h", " ", "f", "i", "l", "e", " ", "o", "r", " ", "d", "i", "r", "e", "c", "t", "o", "r", "y", ":", " ", "'", "f", "f", "p", "r", "o", "b", "e", "'">>
MsgNoFfmpeg ==
    <<"[", "E", "r", "r", "n", "o", " ", "2", "]", " ", "N", "o", " ", "s", "u", "c", "h", " ", "f", "i", "l", "e", " ", "o", "r", " ", "d", "i", "r", "e", "c", "t", "o", "r", "y", ":", " ", "'", "f", "f", "m", "p", "e", "g", "'">>
MsgWinNotFound ==
    <<"[", "W", "i", "n", "E", "r", "r", "o", "r", " ", "2", "]", " ", "T", "h", "e", " ", "s", "y", "s", "t", "e", "m", " ", "c", "a", "n", "n", "o", "t", " ", "f", "i", "n", "d", " ", "t", "h", "e", " ", "f", "i", "l", "e", " ", "s", "p", "e", "c", "i", "f", "i", "e", "d">>
MsgDecodeFailed ==
    <<"D", "e", "c", "o", "d", "i", "n", "g", " ", "f", "a", "i", "l", "e", "d", ".", " ", "f", "f", "m", "p", "e", "g", " ", "r", "e", "t", "u", "r", "n", "e", "d", " ", "e", "r", "r", "o", "r", " ", "c", "o", "d", "e", ":", " ", "1">>

NoException == [raised |-> FALSE, msg |-> <<>>]
Raised(m) == [raised |-> TRUE, msg |-> m]

\* AudioSegment.from_file("test") is a call into the codec library: it opens
\* the file "test" of the working directory first, then runs the toolchain.
\* The outcomes are the ones the library can produce in each environment.
ProbeOutcomes(installed, testExists) ==
    IF ~testExists THEN {Raised(MsgNoTestFile)}
    ELSE IF ~installed THEN {Raised(MsgNoFfprobe), Raised(MsgNoFfmpeg), Raised(MsgWinNotFound)}
    ELSE {NoException, Raised(MsgDecodeFailed)}

\* except Exception as e: if "ffmpeg" in str(e).lower()
MentionsFfmpeg(e) == e.raised /\ Contains(Ffmpeg, Lower(e.msg))

\* ------------------------------------------------------------------- state
VARIABLES
    pc,               \* position of the single thread of control
    input_folder,     \* argument of convert_mp3_to_wav
    output_folder,    \* argument of convert_mp3_to_wav
    dirs,             \* the directories of the filesystem
    files,            \* the regular files of the filesystem: path -> content
    ffmpegInstalled,  \* environment: the codec toolchain is installed
    testFileExists,   \* environment: a file "test" is in the working directory
    mp3_files,        \* the filtered listing, in listing order
    idx,              \* position of the for loop in mp3_files
    stdout,           \* what print() emitted, in order
    reads,            \* paths handed to AudioSegment.from_mp3
    listed,           \* folders handed to os.listdir
    result,           \* outcome of each attempted conversion: name -> outcome
    dirs0,            \* the directories when the run started
    files0            \* the files when the run started

vars ==
    <<pc, input_folder, output_folder, dirs, files, ffmpegInstalled, testFileExists,
      mp3_files, idx, stdout, reads, listed, result, dirs0, files0>>

Outcomes == {"ok", "decode_fail", "resample_fail", "export_fail_unopened", "export_fail_partial"}

Msg(kind, file) == [kind |-> kind, file |-> file]

\* os.path.isdir
IsDir(p) == p \in dirs

\* os.listdir(folder): the names directly inside folder
ListDir(folder) ==
    {p[Len(p)] : p \in {q \in dirs \cup DOMAIN files : SubSeq(q, 1, Len(q) - 1) = folder}}

\* the orders os.listdir may return the names in
Orderings(S) ==
    {s \in [1..Cardinality(S) -> S] : \A i, j \in 1..Cardinality(S) : i # j => s[i] # s[j]}

\* [f for f in files if f.lower().endswith(".mp3")], order kept
RECURSIVE Filter(_)
Filter(s) ==
    IF s = <<>> THEN <<>>
    ELSE IF IsMp3(Head(s)) THEN <<Head(s)>> \o Filter(Tail(s))
    ELSE Filter(Tail(s))

\* A variant of os.makedirs that creates the leaf only.
Makedirs_leafOnly(ds, p) == ds \cup {p}

\* os.makedirs(p, exist_ok=True): p and every missing ancestor
Makedirs(ds, p) == ds \cup Prefixes(p)

Write(fs, path, content) ==
    [q \in DOMAIN fs \cup {path} |-> IF q = path THEN content ELSE fs[q]]

\* A variant of the conversion that opens the output file before decoding.
FilesAfter_openFirst(fs, outcome, mp3_file, output_path) ==
    IF outcome = "ok" THEN Write(fs, output_path, Wav(mp3_file))
    ELSE Write(fs, output_path, Partial(mp3_file))

\* The filesystem after the try block of one iteration: from_mp3 and
\* set_frame_rate/set_channels do not touch output_path; export opens it for
\* writing and may fail before opening it or while writing it.
FilesAfter(fs, outcome, mp3_file, output_path) ==
    IF outcome = "ok" THEN Write(fs, output_path, Wav(mp3_file))
    ELSE IF outcome = "export_fail_partial" THEN Write(fs, output_path, Partial(mp3_file))
    ELSE fs

\* AudioSegment.from_mp3 runs the toolchain on the file: it raises when the
\* toolchain is missing or the path is not a file (and may raise anyway)
CanDecode(input_path) == ffmpegInstalled /\ input_path \in DOMAIN files

\* -------------------------------------------------------------------- Init
Init ==
    /\ pc = "main"
    /\ input_folder \in InputChoices
    /\ output_folder \in OutputChoices
    /\ dirs \in {ds \in SUBSET AllDirs : \A d \in ds : Prefixes(d) \subseteq ds}
    /\ \E entries \in {S \in SUBSET Names : Cardinality(S) <= MaxFiles} :
          files = IF input_folder \in dirs
                  THEN [p \in {Join(input_folder, n) : n \in entries} |-> Original]
                  ELSE [p \in {} |-> Original]
    /\ ffmpegInstalled \in BOOLEAN
    /\ testFileExists \in BOOLEAN
    /\ mp3_files = <<>>
    /\ idx = 1
    /\ stdout = <<>>
    /\ reads = {}
    /\ listed = {}
    /\ result = [n \in {} |-> "ok"]
    /\ dirs0 = dirs
    /\ files0 = files

\* ----------------------------------------------------------------- actions
\* main(), lines 79-89: probe the toolchain, then call convert_mp3_to_wav
\* unless the exception text mentions ffmpeg.
ProbeToolchain ==
    /\ pc = "main"
    /\ \E e \in ProbeOutcomes(ffmpegInstalled, testFileExists) :
          IF MentionsFfmpeg(e)
          THEN /\ stdout' = Append(stdout, Msg("ffmpeg_missing", <<>>))
               /\ pc' = "exited"
          ELSE /\ stdout' = stdout
               /\ pc' = "called"
    /\ UNCHANGED <<input_folder, output_folder, dirs, files, ffmpegInstalled, testFileExists,
                   mp3_files, idx, reads, listed, result, dirs0, files0>>

\* A variant of the input check that reports the error but does not return.
CheckInputFolder_noReturn ==
    /\ pc = "called"
    /\ stdout' = IF IsDir(input_folder) THEN stdout
                 ELSE Append(stdout, Msg("input_missing", <<>>))
    /\ pc' = "mkdir"
    /\ UNCHANGED <<input_folder, output_folder, dirs, files, ffmpegInstalled, testFileExists,
                   mp3_files, idx, reads, listed, result, dirs0, files0>>

\* lines 21-24
CheckInputFolder ==
    /\ pc = "called"
    /\ IF ~IsDir(input_folder)
       THEN /\ stdout' = Append(stdout, Msg("input_missing", <<>>))
            /\ pc' = "returned"
       ELSE /\ stdout' = stdout
            /\ pc' = "mkdir"
    /\ UNCHANGED <<input_folder, output_folder, dirs, files, ffmpegInstalled, testFileExists,
                   mp3_files, idx, reads, listed, result, dirs0, files0>>

\* lines 26-28; os.makedirs may raise OSError, which nothing catches
MakeOutputFolder ==
    /\ pc = "mkdir"
    /\ IF IsDir(output_folder)
       THEN /\ dirs' = dirs
            /\ pc' = "list"
       ELSE \E created \in BOOLEAN :
               IF created
               THEN /\ dirs' = Makedirs(dirs, output_folder)
                    /\ pc' = "list"
               ELSE /\ dirs' = dirs
                    /\ pc' = "crashed"
    /\ UNCHANGED <<input_folder, output_folder, files, ffmpegInstalled, testFileExists,
                   mp3_files, idx, stdout, reads, listed, result, dirs0, files0>>

\* lines 30-34
ListFiles ==
    /\ pc = "list"
    /\ \E listing \in Orderings(ListDir(input_folder)) :
          mp3_files' = Filter(listing)
    /\ listed' = listed \cup {input_folder}
    /\ idx' = 1
    /\ pc' = "loop"
    /\ UNCHANGED <<input_folder, output_folder, dirs, files, ffmpegInstalled, testFileExists,
                   stdout, reads, result, dirs0, files0>>

\* A variant of the loop body without the try/except: a failure propagates.
ConvertFile_noCatch ==
    /\ pc = "loop"
    /\ idx <= Len(mp3_files)
    /\ LET mp3_file == mp3_files[idx]
           input_path == Join(input_folder, mp3_file)
           output_filename == OutputFilename(mp3_file)
           output_path == Join(output_folder, output_filename)
       IN  \E outcome \in Outcomes :
              /\ (~CanDecode(input_path) => outcome = "decode_fail")
              /\ reads' = reads \cup {input_path}
              /\ files' = FilesAfter(files, outcome, mp3_file, output_path)
              /\ result' = (mp3_file :> outcome) @@ result
              /\ stdout' = stdout \o
                    (IF outcome = "ok"
                     THEN <<Msg("processing", mp3_file), Msg("saved", mp3_file)>>
                     ELSE <<Msg("processing", mp3_file)>>)
              /\ pc' = IF outcome = "ok" THEN "loop" ELSE "crashed"
    /\ idx' = idx + 1
    /\ UNCHANGED <<input_folder, output_folder, dirs, ffmpegInstalled, testFileExists,
                   mp3_files, listed, dirs0, files0>>

\* A variant of the loop body whose success message is in a finally clause.
ConvertFile_finally ==
    /\ pc = "loop"
    /\ idx <= Len(mp3_files)
    /\ LET mp3_file == mp3_files[idx]
           input_path == Join(input_folder, mp3_file)
           output_filename == OutputFilename(mp3_file)
           output_path == Join(output_folder, output_filename)
       IN  \E outcome \in Outcomes :
              /\ (~CanDecode(input_path) => outcome = "decode_fail")
              /\ reads' = reads \cup {input_path}
              /\ files' = FilesAfter(files, outcome, mp3_file, output_path)
              /\ result' = (mp3_file :> outcome) @@ result
              /\ stdout' = stdout \o
                    (IF outcome = "ok"
                     THEN <<Msg("processing", mp3_file), Msg("saved", mp3_file)>>
                     ELSE <<Msg("processing", mp3_file), Msg("failed", mp3_file),
                            Msg("saved", mp3_file)>>)
    /\ idx' = idx + 1
    /\ UNCHANGED <<pc, input_folder, output_folder, dirs, ffmpegInstalled, testFileExists,
                   mp3_files, listed, dirs0, files0>>

\* lines 37-51: one iteration of the for loop
ConvertFile ==
    /\ pc = "loop"
    /\ idx <= Len(mp3_files)
    /\ LET mp3_file == mp3_files[idx]
           input_path == Join(input_folder, mp3_file)
           output_filename == OutputFilename(mp3_file)
           output_path == Join(output_folder, output_filename)
       IN  \E outcome \in Outcomes :
              /\ (~CanDecode(input_path) => outcome = "decode_fail")
              /\ reads' = reads \cup {input_path}
              /\ files' = FilesAfter(files, outcome, mp3_file, output_path)
              /\ result' = (mp3_file :> outcome) @@ result
              /\ stdout' = stdout \o
                    (IF outcome = "ok"
                     THEN <<Msg("processing", mp3_file), Msg("saved", mp3_file)>>
                     ELSE <<Msg("processing", mp3_file), Msg("failed", mp3_file)>>)
    /\ idx' = idx + 1
    /\ UNCHANGED <<pc, input_folder, output_folder, dirs, ffmpegInstalled, testFileExists,
                   mp3_files, listed, dirs0, files0>>

\* the for loop is exhausted: convert_mp3_to_wav returns
Return ==
    /\ pc = "loop"
    /\ idx > Len(mp3_files)
    /\ pc' = "returned"
    /\ UNCHANGED <<input_folder, output_folder, dirs, files, ffmpegInstalled, testFileExists,
                   mp3_files, idx, stdout, reads, listed, result, dirs0, files0>>

Next ==
    \/ ProbeToolchain
    \/ CheckInputFolder
    \/ MakeOutputFolder
    \/ ListFiles
    \/ ConvertFile
    \/ Return

Spec == Init /\ [][Next]_vars

\* ------------------------------------------------------ vocabulary of the claims
Last(p) == p[Len(p)]

\* "ends with .mp3 case-insensitively", spelled out letter by letter
EndsMp3CI(n) ==
    /\ Len(n) >= 4
    /\ n[Len(n) - 3] = "."
    /\ n[Len(n) - 2] \in {"m", "M"}
    /\ n[Len(n) - 1] \in {"p", "P"}
    /\ n[Len(n)] = "3"

\* the entries of the input folder when the run started
InitialEntries ==
    {Last(p) : p \in {q \in dirs0 \cup DOMAIN files0 : SubSeq(q, 1, Len(q) - 1) = input_folder}}

InitialMatched == {n \in InitialEntries : EndsMp3CI(n)}

Count(kind, f) == Cardinality({i \in 1..Len(stdout) : stdout[i] = Msg(kind, f)})

Terminals(f) == Count("saved", f) + Count("failed", f)

Failed(f) == f \in DOMAIN result /\ result[f] # "ok"

Succeeded(f) == f \in DOMAIN result /\ result[f] = "ok"

OutputPathOf(f) == Join(output_folder, OutputFilename(f))

\* the source name without its last four characters
StripExt(f) == SubSeq(f, 1, Len(f) - 4)

\* the part of a matched name that decides the output name: the name without
\* its extension, or the whole name when only dots precede the extension
Stem(f) ==
    IF \A k \in 1..(Len(f) - 4) : f[k] = "." THEN f ELSE StripExt(f)

\* ------------------------------------------------------------------ claims
\* C1: batch isolation.  A failing conversion is reported for that file only
\* and does not end the loop: the files are attempted one by one in listing
\* order, nothing but a folder-setup error crashes the run, and when the
\* function returns every matched entry was attempted, each failed one has a
\* failure message and each other one a success message and its output file.
BatchIsolation ==
    /\ (DOMAIN result # {} => pc \in {"loop", "returned"})
    /\ \A i \in 1..Len(mp3_files) : (i < idx) <=> (mp3_files[i] \in DOMAIN result)
    /\ (pc = "returned" /\ listed # {}) =>
          \A f \in InitialMatched :
             /\ f \in DOMAIN result
             /\ Failed(f) => (Count("failed", f) = 1 /\ Count("saved", f) = 0)
             /\ Succeeded(f) =>
                   /\ Count("saved", f) = 1
                   /\ Count("failed", f) = 0
                   /\ OutputPathOf(f) \in DOMAIN files

\* C1 witness: a run that returned after a failure, a success and another failure.
BatchIsolationWitness ==
    /\ pc = "returned"
    /\ Len(mp3_files) = 3
    /\ Failed(mp3_files[1])
    /\ Succeeded(mp3_files[2])
    /\ Failed(mp3_files[3])
    /\ Count("saved", mp3_files[2]) = 1

\* C2 (as claimed): after the function returns, every matched entry whose
\* conversion succeeded has its output file named <base>.wav, <base> being the
\* source name with only the source extension removed.
OutputNamedBaseWav ==
    pc = "returned" =>
       \A f \in DOMAIN result :
          result[f] = "ok" => Join(output_folder, StripExt(f) \o ExtWav) \in DOMAIN files

\* C3: when the input folder does not exist, the function reports the error
\* and returns with the filesystem unchanged: no folder is created, nothing
\* is listed, read, converted or written.
InputMissingNoEffect ==
    input_folder \notin dirs0 =>
       /\ pc \in {"main", "exited", "called", "returned"}
       /\ dirs = dirs0
       /\ files = files0
       /\ listed = {}
       /\ reads = {}
       /\ DOMAIN result = {}
       /\ (pc = "returned" => stdout = <<Msg("input_missing", <<>>)>>)

\* C3 witness: the function returned on a missing input folder, the output
\* folder missing too.
InputMissingWitness ==
    /\ pc = "returned"
    /\ input_folder \notin dirs0
    /\ output_folder \notin dirs0
    /\ output_folder \notin dirs

\* C4 (as claimed): whenever the toolchain is unavailable, the program prints
\* the installation guidance and exits: convert_mp3_to_wav is never entered,
\* no output folder is created and no file is decoded.
ToolchainUnavailableExits ==
    ~ffmpegInstalled =>
       /\ pc \in {"main", "exited"}
       /\ (pc = "exited" => stdout = <<Msg("ffmpeg_missing", <<>>)>>)
       /\ dirs = dirs0
       /\ reads = {}

\* C5: every matched file gets exactly one terminal message: after its
\* processing-started message either the success or the failure message,
\* never both, never neither, and never again later in the run.
ExactlyOneTerminal ==
    /\ \A f \in Names :
          /\ Count("processing", f) <= 1
          /\ Terminals(f) = Count("processing", f)
          /\ Terminals(f) = (IF f \in DOMAIN result THEN 1 ELSE 0)
    /\ \A i \in 1..Len(stdout) :
          stdout[i].kind \in {"saved", "failed"} =>
             i > 1 /\ stdout[i - 1] = Msg("processing", stdout[i].file)
    /\ (pc = "returned" /\ listed # {}) => \A f \in InitialMatched : Terminals(f) = 1

\* C5 witness: a finished run with one success message and one failure message.
ExactlyOneTerminalWitness ==
    /\ pc = "returned"
    /\ \E f, g \in InitialMatched :
          /\ Count("saved", f) = 1
          /\ Count("failed", g) = 1

OutputFolderExistsAfterRun ==
    (pc = "returned" /\ output_folder \notin dirs0) => output_folder \in dirs

\* C7 (amended): if the output folder does not exist before the run and the
\* input folder exists, then once the folder setup is passed (os.makedirs did
\* not raise) the output folder exists together with every intermediate
\* directory, and it stays until the function returns.
OutputFolderCreated ==
    (output_folder \notin dirs0 /\ input_folder \in dirs0 /\ pc \in {"list", "loop", "returned"})
       => Prefixes(output_folder) \subseteq dirs

\* C7 witness: the function returned after creating x/out where x was missing.
OutputFolderCreatedWitness ==
    /\ pc = "returned"
    /\ input_folder \in dirs0
    /\ output_folder = <<DirX, DirOut>>
    /\ <<DirX>> \notin dirs0
    /\ output_folder \in dirs

\* C8 (as claimed): a file whose conversion failed at any step leaves no
\* partial output file behind.
NoPartialAfterFailure ==
    \A f \in DOMAIN result :
       result[f] # "ok" =>
          ~(/\ OutputPathOf(f) \in DOMAIN files
            /\ files[OutputPathOf(f)] = Partial(f))

\* C8 (amended): a file whose conversion failed at decode or at
\* resample/remix never had anything written for it, and a partial output
\* file only ever comes from a conversion that failed during export.
NoOutputAfterDecodeFailure ==
    /\ \A f \in DOMAIN result :
          result[f] \in {"decode_fail", "resample_fail"} =>
             \A p \in DOMAIN files : files[p].src # f
    /\ \A p \in DOMAIN files :
          files[p].kind = "partial" => result[files[p].src] = "export_fail_partial"

\* C8 witness: a finished run with a decode failure and a resample failure,
\* the output folder holding nothing.
NoOutputAfterDecodeFailureWitness ==
    /\ pc = "returned"
    /\ \E f, g \in DOMAIN result :
          /\ result[f] = "decode_fail"
          /\ result[g] = "resample_fail"
    /\ \A p \in DOMAIN files : files[p].kind = "original"

\* C9 (as claimed): two distinct matched entries of one listing never have
\* the same output path.
OutputPathsUnique ==
    \A i, j \in 1..Len(mp3_files) :
       i # j => OutputPathOf(mp3_files[i]) # OutputPathOf(mp3_files[j])

\* C9 (amended): two distinct matched entries have the same output path
\* exactly when they have the same stem (a.mp3 and a.MP3; .mp3 and
\* .mp3.mp3); entries with different stems have different output paths, and
\* a converted file lies at the output folder joined with stem + ".wav".
OutputPathsUniquePerStem ==
    /\ \A i, j \in 1..Len(mp3_files) :
          i # j =>
             ((OutputPathOf(mp3_files[i]) = OutputPathOf(mp3_files[j]))
                <=> (Stem(mp3_files[i]) = Stem(mp3_files[j])))
    /\ \A p \in DOMAIN files :
          files[p].kind = "wav" => p = Join(output_folder, Stem(files[p].src) \o ExtWav)

\* C9 witness: a finished run over a.mp3, a.MP3 and .mp3, all converted:
\* .mp3.wav comes from .mp3 and a.wav from the later of the other two.
OutputPathsWitness ==
    /\ pc = "returned"
    /\ \A f \in {NameAmp3, NameAMP3, NameDotMp3} : Succeeded(f)
    /\ files[OutputPathOf(NameDotMp3)] = Wav(NameDotMp3)
    /\ \E i, j \in 1..Len(mp3_files) :
          /\ i < j
          /\ {mp3_files[i], mp3_files[j]} = {NameAmp3, NameAMP3}
          /\ files[OutputPathOf(NameAmp3)] = Wav(mp3_files[j])

\* C10: when the input folder is the output folder, no conversion writes to
\* the path of a matched source file: every written name ends in ".wav" and
\* does not pass the filter, the matched sources keep their content, and
\* the files written during the run are not picked up for conversion.
SameFolderSourcesUntouched ==
    input_folder = output_folder =>
       /\ \A p \in DOMAIN files0 : EndsMp3CI(Last(p)) => files[p] = files0[p]
       /\ \A p \in DOMAIN files :
             files[p].kind # "original" =>
                /\ EndsWith(Last(p), ExtWav)
                /\ ~EndsMp3CI(Last(p))
                /\ SubSeq(p, 1, Len(p) - 1) = input_folder
       /\ reads \subseteq DOMAIN files0
       /\ DOMAIN result \subseteq InitialMatched
       /\ \A i \in 1..Len(mp3_files) : mp3_files[i] \in InitialMatched

\* C10 witness: a finished run in one folder that wrote a new .wav file next
\* to its source.
SameFolderWitness ==
    /\ pc = "returned"
    /\ input_folder = output_folder
    /\ \E f \in InitialMatched :
          /\ Succeeded(f)
          /\ OutputPathOf(f) \notin DOMAIN files0
          /\ files[OutputPathOf(f)] = Wav(f)
          /\ files[Join(input_folder, f)] = Original

====
